---- MODULE Spec2Model ----
(***************************************************************************)
(* Model of the sentence-level batch generator                              *)
(* (lstm_with_wordpieces/lm_keras_generators.py) and of the sequence        *)
(* preparer (lstm_with_wordpieces/03_train.py).                             *)
(*                                                                          *)
(* A generator object is one record `self`; the consumer pulls batches from *)
(* the coroutine returned by generate(), whose position is `pc`.  Arrays    *)
(* are sequences of sequences; Python's 0-based, clamped slices are         *)
(* translated by PySlice / ColsFrom.                                        *)
(***************************************************************************)
EXTENDS Integers, Sequences, FiniteSets, TLC

VARIABLES
    args,               \* keyword arguments handed to __init__
    self,               \* the generator object's fields, NoObject before __init__
    pc,                 \* position of the constructor / generator coroutine
    fd,                 \* generate_from_disk: fsize, the read position, the string
                        \* last read, and the loop locals
    batch,              \* the (x, y) pair of the last yield, NoBatch before the first
    emitted,            \* number of batches yielded so far
    resets,             \* number of reset() calls so far
    summary,            \* what print_batch_info last printed, NoSummary before
    corpus,             \* prepare_sequences: the encoded lines of the corpus file
    prep_args,          \* prepare_sequences: min_seq_len, max_seq_len, add_eos, padding_direction
    prepared            \* prepare_sequences: its outcome, NotPrepared before the call

vars == <<args, self, pc, fd, batch, emitted, resets, summary, corpus, prep_args, prepared>>

genVars == <<args, self, pc, fd, batch, emitted, resets, summary>>
prepVars == <<corpus, prep_args, prepared>>

-----------------------------------------------------------------------------
(* Bounds of the model *)

MaxSeqLen == 4
MaxRows == 4
MaxLines == 3
MaxShift == 2
MaxMinSeqLen == 3
MaxBatches == 4
MaxResets == 1
MaxCorpus == 11

(* Program constants *)

PAD_ID == 1
PadValue == 1
EndMarker == 3
EosId == 3
LogHead == 10

NoObject == [none |-> "object"]
NoBatch == [none |-> "batch"]
NoSummary == [none |-> "summary"]
NotPrepared == [none |-> "prepared"]
NoFd == [none |-> "fd"]

\* explicit_x_seq_len=None: `or` treats None and 0 alike
Falsy == 0

\* a token of the file that is no decimal integer (two characters, say "xx")
NotANumber == 99

\* what np.genfromtxt(..., dtype=int) stores for a token it cannot convert
FillValue == 0 - 1

-----------------------------------------------------------------------------
(* Python and numpy helpers *)

Min(a, b) == IF a <= b THEN a ELSE b
Max(a, b) == IF a >= b THEN a ELSE b

\* s[a:b] for 0 <= a, 0 <= b: indices are clamped to the length
PySlice(s, a, b) == SubSeq(s, Min(a, Len(s)) + 1, Min(b, Len(s)))

\* row[k:] for k >= 0
ColsFrom(row, k) == SubSeq(row, Min(k, Len(row)) + 1, Len(row))

\* one row of tf.keras.preprocessing.sequence.pad_sequences
PadRow(s, maxlen, padding, truncating, value) ==
    IF Len(s) = 0 THEN [c \in 1..maxlen |-> value]
    ELSE LET trunc == IF truncating = "pre"
                      THEN SubSeq(s, Max(Len(s) - maxlen, 0) + 1, Len(s))
                      ELSE SubSeq(s, 1, Min(maxlen, Len(s)))
             fill == [c \in 1..(maxlen - Len(trunc)) |-> value]
         IN IF padding = "post" THEN trunc \o fill ELSE fill \o trunc

\* pad_sequences(sequences, maxlen=..., padding=..., truncating=..., value=...)
pad_sequences(sequences, maxlen, padding, truncating, value) ==
    [i \in 1..Len(sequences) |-> PadRow(sequences[i], maxlen, padding, truncating, value)]

-----------------------------------------------------------------------------
(* The data the generators are built over *)

\* the id at column c of line i: distinct everywhere and never a reserved id
Tok(i, c) == 10 * i + c

\* an encoded line of the given length
Line(i, len) == [c \in 1..len |-> Tok(i, c)]

\* a Sequence Table: rows Padded Sequences of exactly max_seq_len ids
Table(rows, max_seq_len) == [i \in 1..rows |-> Line(i, max_seq_len)]

\* a pre-tokenized file: line i holds lens[i] whitespace-separated ids
File(lens) == [i \in 1..Len(lens) |-> Line(i, lens[i])]

\* the line lengths tried against max_seq_len = m: an empty line, a single
\* id, and one id less than, exactly, and one id more than m
LineLens(m) == {0, 1, m - 1, m, m + 1}

-----------------------------------------------------------------------------
(* KerasLMSentenceLevelBatchGenerator: construction and sizing *)

\* explicit_x_seq_len or len(x_sequences)
ExplicitSeqLen(a) ==
    IF a.explicit_x_seq_len = Falsy THEN Len(a.x_sequences) ELSE a.explicit_x_seq_len

\* mutant: the check also refuses a skip step equal to max_seq_len
SkipStepRejectedWhenEqual(skip_step, max_seq_len) == skip_step >= max_seq_len

\* the check that opens __init__
SkipStepRejected(skip_step, max_seq_len) == skip_step > max_seq_len

\* the object __init__ leaves behind
NewObject(a) ==
    [x_sequences |-> a.x_sequences,
     explicit_seq_len |-> ExplicitSeqLen(a),
     no_slurp |-> a.no_slurp,
     max_seq_len |-> a.max_seq_len,
     min_seq_len |-> a.min_seq_len,
     num_shifted_sentences |-> a.num_shifted_sentences,
     current_idx |-> 0,
     skip_step |-> a.skip_step,
     pad_idx_or_symbol |-> a.pad_idx_or_symbol]

\* mutant: the division rounds up
get_num_sliding_windows_ceil(obj) ==
    (obj.max_seq_len + obj.skip_step - 1) \div obj.skip_step

get_num_sliding_windows(obj) == obj.max_seq_len \div obj.skip_step

get_batch_size(obj) == obj.num_shifted_sentences * get_num_sliding_windows(obj)

\* mutant: the epoch counts sentences, not windows
get_epoch_size_unscaled(obj) == obj.explicit_seq_len

get_epoch_size(obj) == obj.explicit_seq_len * get_num_sliding_windows(obj)

get_steps_per_epoch(obj) == get_epoch_size(obj) \div get_batch_size(obj)

\* the four derived rows, (4), (6), (7), (8), of the printed summary
BatchInfo(obj) ==
    [num_sliding_windows |-> get_num_sliding_windows(obj),
     epoch_size |-> get_epoch_size(obj),
     batch_size |-> get_batch_size(obj),
     steps_per_epoch |-> get_steps_per_epoch(obj)]

-----------------------------------------------------------------------------
(* The windowing shared by both strategies *)

\* mutant: the slice starts at column window_idx
ShiftedRowsByWindowIdx(block, window_idx, skip_step) ==
    [j \in 1..Len(block) |-> ColsFrom(block[j], window_idx)]

\* block[:, window_idx*skip_step:]
ShiftedRows(block, window_idx, skip_step) ==
    [j \in 1..Len(block) |-> ColsFrom(block[j], window_idx * skip_step)]

\* mutant: the targets are not shifted
TargetRowsUnshifted(x_shifted) == x_shifted

\* x_shifted[:, 1:]
TargetRows(x_shifted) ==
    [j \in 1..Len(x_shifted) |-> ColsFrom(x_shifted[j], 1)]

\* for window_idx in range(num_sliding_windows): x.extend(...); y.extend(...)
RECURSIVE SlidingWindows(_, _, _, _, _, _)
SlidingWindows(block, window_idx, num_sliding_windows, skip_step, x, y) ==
    IF window_idx >= num_sliding_windows THEN [x |-> x, y |-> y]
    ELSE LET x_shifted == ShiftedRows(block, window_idx, skip_step)
         IN SlidingWindows(block, window_idx + 1, num_sliding_windows, skip_step,
                           x \o x_shifted, y \o TargetRows(x_shifted))

\* the loop over the windows, then the re-padding of x and of y
MakeBatch(block, max_seq_len, skip_step) ==
    LET w == SlidingWindows(block, 0, max_seq_len \div skip_step, skip_step, <<>>, <<>>)
    IN [x |-> pad_sequences(w.x, max_seq_len, "post", "pre", PadValue),
        y |-> pad_sequences(w.y, max_seq_len, "post", "pre", PadValue)]

-----------------------------------------------------------------------------
(* Strategy: in memory *)

\* mutant: the cursor wraps only when the block would pass the end
WrapNeededPastEnd(current_idx, num_shifted_sentences, explicit_seq_len) ==
    current_idx + num_shifted_sentences > explicit_seq_len

\* mutant: the cursor wraps only once it is past the table
WrapNeededBeyondTable(current_idx, num_shifted_sentences, explicit_seq_len) ==
    current_idx >= explicit_seq_len

\* the wrap test that opens each iteration of generate_slurped
WrapNeeded(current_idx, num_shifted_sentences, explicit_seq_len) ==
    current_idx + num_shifted_sentences >= explicit_seq_len

\* mutant: the cursor advances by one sentence per batch
SlurpedStepBySentence(obj) ==
    LET idx == IF WrapNeeded(obj.current_idx, obj.num_shifted_sentences, obj.explicit_seq_len)
               THEN 0 ELSE obj.current_idx
        block == PySlice(obj.x_sequences, idx, idx + obj.num_shifted_sentences)
    IN [current_idx |-> idx + 1,
        batch |-> MakeBatch(block, obj.max_seq_len, obj.skip_step)]

\* one iteration of generate_slurped's loop, up to its yield
SlurpedStep(obj) ==
    LET idx == IF WrapNeeded(obj.current_idx, obj.num_shifted_sentences, obj.explicit_seq_len)
               THEN 0 ELSE obj.current_idx
        block == PySlice(obj.x_sequences, idx, idx + obj.num_shifted_sentences)
    IN [current_idx |-> idx + obj.num_shifted_sentences,
        batch |-> MakeBatch(block, obj.max_seq_len, obj.skip_step)]

-----------------------------------------------------------------------------
(* Strategy: streamed from disk *)

\* the bytes of one line of the file: two digits per id, a separator after
\* each but the last, and the line feed
LineBytes(text) == IF Len(text) = 0 THEN 1 ELSE 3 * Len(text)

\* the byte offset at which line i + 1 of the file starts
RECURSIVE Offset(_, _)
Offset(file, i) == IF i = 0 THEN 0 ELSE Offset(file, i - 1) + LineBytes(file[i])

\* os.path.getsize
getsize(file) == Offset(file, Len(file))

\* fd.readline() at byte offset pos: the line that starts there and the
\* offset after it; the empty string, and no move, at end of file
readline(file, pos) ==
    IF \E i \in 1..Len(file) : Offset(file, i - 1) = pos
    THEN LET i == CHOOSE k \in 1..Len(file) : Offset(file, k - 1) = pos
         IN [text |-> file[i], pos |-> Offset(file, i)]
    ELSE [text |-> <<>>, pos |-> pos]

\* int(float(token)) under genfromtxt's loose conversion: a token that does
\* not convert becomes the converter's default and raises nothing
LooseInt(token) == IF token = NotANumber THEN FillValue ELSE token

\* np.genfromtxt(StringIO(text), dtype=int): the ids as a 1-d array, but a
\* 0-d array for a line of a single token (the result is squeezed), and an
\* empty 1-d array for an empty input
genfromtxt(text) ==
    [ndim |-> IF Len(text) = 1 THEN 0 ELSE 1,
     data |-> [c \in 1..Len(text) |-> LooseInt(text[c])]]

\* if fd.tell() > fsize: fd.seek(0)
SeekNeeded(tell, fsize) == tell > fsize

\* mutant: a line of exactly max_seq_len ids is closed by the end marker too
MarkEndWhenFull(line, max_seq_len) ==
    IF Len(line) >= max_seq_len THEN [line EXCEPT ![max_seq_len] = EndMarker] ELSE line

\* if len(line) > max_seq_len: line[max_seq_len - 1] = 3
MarkEnd(line, max_seq_len) ==
    IF Len(line) > max_seq_len THEN [line EXCEPT ![max_seq_len] = EndMarker] ELSE line

\* the padding of the block, then the windowing, of generate_from_disk
DiskBatch(x_local_sequences, obj) ==
    MakeBatch(pad_sequences(x_local_sequences, obj.max_seq_len, "post", "post",
                            obj.pad_idx_or_symbol),
              obj.max_seq_len, obj.skip_step)

\* one iteration of the inner loop of generate_from_disk: outcome is
\* "TypeError" (len() of a 0-d array), "continue" (next iteration) or "yield"
ReadStep(obj, f) ==
    LET tell == IF SeekNeeded(f.tell, f.fsize) THEN 0 ELSE f.tell
        r == readline(obj.x_sequences, tell)
        line == genfromtxt(r.text)
    IN IF line.ndim = 0
       THEN [outcome |-> "TypeError", f |-> [f EXCEPT !.tell = r.pos, !.text = r.text]]
       ELSE IF Len(line.data) < obj.min_seq_len
       THEN [outcome |-> "continue",
             f |-> [f EXCEPT !.tell = r.pos, !.text = r.text, !.line = line.data]]
       ELSE LET marked == MarkEnd(line.data, obj.max_seq_len)
                g == [f EXCEPT !.tell = r.pos, !.text = r.text, !.line = marked,
                               !.x_local_sequences = Append(@, marked),
                               !.cnt = @ + 1]
            IN [outcome |-> IF g.cnt >= obj.num_shifted_sentences THEN "yield" ELSE "continue",
                f |-> g]

-----------------------------------------------------------------------------
(* The state machine *)

\* the keyword arguments of a constructor call
Args(x_sequences, max_seq_len, min_seq_len, num_shifted_sentences, skip_step, explicit_x_seq_len, no_slurp) ==
    [x_sequences |-> x_sequences,
     max_seq_len |-> max_seq_len,
     min_seq_len |-> min_seq_len,
     num_shifted_sentences |-> num_shifted_sentences,
     pad_idx_or_symbol |-> PAD_ID,
     skip_step |-> skip_step,
     explicit_x_seq_len |-> explicit_x_seq_len,
     no_slurp |-> no_slurp]

\* an in-memory call: a table of 1..MaxRows padded sequences, no explicit length
SlurpedArgs(a) ==
    \E m \in 1..MaxSeqLen, mn \in 0..MaxMinSeqLen, n \in 1..MaxShift, rows \in 1..MaxRows :
        \E k \in 1..(m + 1) :
            a = Args(Table(rows, m), m, mn, n, k, Falsy, FALSE)

\* a streamed call: a file of 1..MaxLines lines and its line count (wc -l)
\* as the explicit length
DiskArgs(a) ==
    \E m \in 1..MaxSeqLen, mn \in 0..MaxMinSeqLen, n \in 1..MaxShift, L \in 1..MaxLines :
        \E k \in 1..(m + 1), lens \in [1..L -> LineLens(m)] :
            a = Args(File(lens), m, mn, n, k, L, TRUE)

GenIdle ==
    /\ SlurpedArgs(args) \/ DiskArgs(args)
    /\ self = NoObject
    /\ pc = "new"
    /\ fd = NoFd
    /\ batch = NoBatch
    /\ emitted = 0
    /\ resets = 0
    /\ summary = NoSummary

PrepIdle ==
    /\ corpus = <<>>
    /\ prep_args = NoObject
    /\ prepared = NotPrepared

Init == GenIdle /\ PrepIdle

\* KerasLMSentenceLevelBatchGenerator(**args)
Construct ==
    /\ pc = "new"
    /\ IF SkipStepRejected(args.skip_step, args.max_seq_len)
       THEN /\ pc' = "ValueError"
            /\ self' = NoObject
       ELSE /\ pc' = "constructed"
            /\ self' = NewObject(args)
    /\ UNCHANGED <<args, fd, batch, emitted, resets, summary>>
    /\ UNCHANGED prepVars

\* print_batch_info(), which main calls on the new object
PrintBatchInfo ==
    /\ pc = "constructed"
    /\ summary = NoSummary
    /\ summary' = BatchInfo(self)
    /\ UNCHANGED <<args, self, pc, fd, batch, emitted, resets>>
    /\ UNCHANGED prepVars

\* mutant: reset() leaves the cursor where it is
ResetKeepsCursor ==
    /\ pc \in {"constructed", "suspended"}
    /\ summary # NoSummary
    /\ ~self.no_slurp
    /\ resets < MaxResets
    /\ self' = self
    /\ resets' = resets + 1
    /\ UNCHANGED <<args, pc, fd, batch, emitted, summary>>
    /\ UNCHANGED prepVars

\* reset() of an in-memory generator, between two batches
Reset ==
    /\ pc \in {"constructed", "suspended"}
    /\ summary # NoSummary
    /\ ~self.no_slurp
    /\ resets < MaxResets
    /\ self' = [self EXCEPT !.current_idx = 0]
    /\ resets' = resets + 1
    /\ UNCHANGED <<args, pc, fd, batch, emitted, summary>>
    /\ UNCHANGED prepVars

\* mutant: the end marker is written into the table's first row in place
SlurpedNextMarksTable ==
    /\ pc \in {"constructed", "suspended"}
    /\ summary # NoSummary
    /\ ~self.no_slurp
    /\ emitted < MaxBatches
    /\ LET r == SlurpedStep(self)
       IN /\ self' = [self EXCEPT !.current_idx = r.current_idx,
                                  !.x_sequences[1][self.max_seq_len] = EndMarker]
          /\ batch' = r.batch
    /\ pc' = "suspended"
    /\ emitted' = emitted + 1
    /\ UNCHANGED <<args, fd, resets, summary>>
    /\ UNCHANGED prepVars

\* next(generate()) in memory: run generate_slurped to its next yield
SlurpedNext ==
    /\ pc \in {"constructed", "suspended"}
    /\ summary # NoSummary
    /\ ~self.no_slurp
    /\ emitted < MaxBatches
    /\ LET r == SlurpedStep(self)
       IN /\ self' = [self EXCEPT !.current_idx = r.current_idx]
          /\ batch' = r.batch
    /\ pc' = "suspended"
    /\ emitted' = emitted + 1
    /\ UNCHANGED <<args, fd, resets, summary>>
    /\ UNCHANGED prepVars

\* next(generate()) streamed: enter generate_from_disk (the first time: size
\* and open the file) and start a new block
DiskRequest ==
    /\ pc \in {"constructed", "suspended"}
    /\ summary # NoSummary
    /\ self.no_slurp
    /\ emitted < MaxBatches
    /\ fd' = [fsize |-> IF pc = "constructed" THEN getsize(self.x_sequences) ELSE fd.fsize,
              tell |-> IF pc = "constructed" THEN 0 ELSE fd.tell,
              text |-> IF pc = "constructed" THEN <<>> ELSE fd.text,
              line |-> IF pc = "constructed" THEN <<>> ELSE fd.line,
              x_local_sequences |-> <<>>,
              cnt |-> 0]
    /\ pc' = "reading"
    /\ UNCHANGED <<args, self, batch, emitted, resets, summary>>
    /\ UNCHANGED prepVars

\* one iteration of the inner `while True`, with the padding, the windowing
\* and the yield once the block is full
DiskReadLine ==
    /\ pc = "reading"
    /\ LET r == ReadStep(self, fd)
       IN /\ fd' = r.f
          /\ pc' = CASE r.outcome = "TypeError" -> "TypeError"
                     [] r.outcome = "yield" -> "suspended"
                     [] OTHER -> "reading"
          /\ batch' = IF r.outcome = "yield" THEN DiskBatch(r.f.x_local_sequences, self)
                      ELSE batch
          /\ emitted' = IF r.outcome = "yield" THEN emitted + 1 ELSE emitted
    /\ UNCHANGED <<args, self, resets, summary>>
    /\ UNCHANGED prepVars

Next ==
    \/ Construct
    \/ PrintBatchInfo
    \/ Reset
    \/ SlurpedNext
    \/ DiskRequest
    \/ DiskReadLine

Spec == Init /\ [][Next]_vars

\* a file as above, but the token at column col of line bad is no integer
DirtyFile(lens, bad, col) ==
    [i \in 1..Len(lens) |->
        [c \in 1..lens[i] |-> IF i = bad /\ c = col THEN NotANumber ELSE Tok(i, c)]]

\* a streamed call over a file one line of which holds a malformed token
DirtyArgs(a) ==
    \E m \in 1..MaxSeqLen, mn \in 0..MaxMinSeqLen, n \in 1..MaxShift, L \in 1..MaxLines :
        \E k \in 1..m, lens \in [1..L -> LineLens(m)], bad \in 1..L :
            \E col \in 1..lens[bad] :
                a = Args(DirtyFile(lens, bad, col), m, mn, n, k, L, TRUE)

InitDirty ==
    /\ DirtyArgs(args)
    /\ self = NoObject
    /\ pc = "new"
    /\ fd = NoFd
    /\ batch = NoBatch
    /\ emitted = 0
    /\ resets = 0
    /\ summary = NoSummary
    /\ PrepIdle

NextDisk ==
    \/ Construct
    \/ PrintBatchInfo
    \/ DiskRequest
    \/ DiskReadLine

SpecDirty == InitDirty /\ [][NextDisk]_vars

-----------------------------------------------------------------------------
(* The sequence preparer (03_train.py) *)

\* what one line leaves in x_sequences: nothing when it is shorter than
\* min_seq_len, else its pieces, cut to max_seq_len (and closed by the end
\* id under add_eos) when there are more
KeptPieces(pieces, a) ==
    IF Len(pieces) < a.min_seq_len THEN <<>>
    ELSE IF Len(pieces) > a.max_seq_len
    THEN LET cut == SubSeq(pieces, 1, a.max_seq_len)
         IN <<IF a.add_eos THEN [cut EXCEPT ![Len(cut)] = EosId] ELSE cut>>
    ELSE <<pieces>>

\* the loop over the lines of the corpus
RECURSIVE CollectSequences(_, _, _)
CollectSequences(lines, i, a) ==
    IF i > Len(lines) THEN <<>>
    ELSE KeptPieces(lines[i], a) \o CollectSequences(lines, i + 1, a)

\* prepare_sequences(spmproc, args) on the encoded lines: the log of the
\* first ten sequences indexes x_sequences[0..9], then the table is padded
prepare_sequences(lines, a) ==
    LET x_sequences == CollectSequences(lines, 1, a)
    IN IF Len(x_sequences) < LogHead
       THEN [status |-> "IndexError", x_sequences |-> <<>>]
       ELSE [status |-> "returned",
             x_sequences |-> pad_sequences(x_sequences, a.max_seq_len,
                                           a.padding_direction, "pre", PAD_ID)]

\* a corpus of L encoded lines, all of b ids but lines p and q, of a ids
Corpus(L, p, q, a, b) ==
    [i \in 1..L |-> Line(i, IF i = p \/ i = q THEN a ELSE b)]

PrepInputs ==
    \E m \in 1..MaxSeqLen, mn \in 0..MaxMinSeqLen, eos \in BOOLEAN,
       dir \in {"pre", "post"}, L \in (LogHead - 1)..MaxCorpus :
        \E p \in 1..L, q \in 1..L, a \in LineLens(m), b \in LineLens(m) :
            /\ p <= q
            /\ prep_args = [min_seq_len |-> mn, max_seq_len |-> m,
                            add_eos |-> eos, padding_direction |-> dir]
            /\ corpus = Corpus(L, p, q, a, b)

GenUnused ==
    /\ args = NoObject
    /\ self = NoObject
    /\ pc = "unused"
    /\ fd = NoFd
    /\ batch = NoBatch
    /\ emitted = 0
    /\ resets = 0
    /\ summary = NoSummary

InitPrepare == GenUnused /\ PrepInputs /\ prepared = NotPrepared

\* x_sequences = prepare_sequences(spmproc, args)
PrepareSequences ==
    /\ prepared = NotPrepared
    /\ prep_args # NoObject
    /\ prepared' = prepare_sequences(corpus, prep_args)
    /\ UNCHANGED <<corpus, prep_args>>
    /\ UNCHANGED genVars

NextPrepare == PrepareSequences

SpecPrepare == InitPrepare /\ [][NextPrepare]_vars

-----------------------------------------------------------------------------
(* Properties *)

CeilDiv(a, b) == (a + b - 1) \div b

Constructed == self # NoObject
Slurped == Constructed /\ ~self.no_slurp
Streamed == Constructed /\ self.no_slurp

\* the generator is suspended at its yield, `batch` being what it yielded
AtYield == Constructed /\ pc = "suspended" /\ batch # NoBatch

Windows == self.max_seq_len \div self.skip_step

\* C1: every emitted batch, of either strategy, has x and y of exactly
\* num_shifted_sentences * (max_seq_len // skip_step) rows and max_seq_len
\* columns.
C1_BatchShape ==
    AtYield =>
        /\ Len(batch.x) = self.num_shifted_sentences * Windows
        /\ Len(batch.y) = self.num_shifted_sentences * Windows
        /\ \A i \in 1..Len(batch.x) : Len(batch.x[i]) = self.max_seq_len
        /\ \A i \in 1..Len(batch.y) : Len(batch.y[i]) = self.max_seq_len

C3_CursorZeroAfterCeil ==
    (Slurped /\ resets = 0
        /\ emitted = CeilDiv(self.explicit_seq_len, self.num_shifted_sentences))
    => self.current_idx = 0

\* C3 amended: from a fresh in-memory generator and with no reset(), batch
\* number k < ceil(explicit_seq_len / num_shifted_sentences) leaves
\* current_idx = k * num_shifted_sentences, and batch number
\* ceil(explicit_seq_len / num_shifted_sentences) is the one built after the
\* cursor went back to 0: it starts with sequence 0 of the table and leaves
\* current_idx = num_shifted_sentences.  Between batches current_idx is never 0.
C3_WrapWhileBuildingBatchCeil ==
    (Slurped /\ resets = 0 /\ emitted >= 1) =>
        LET n == self.num_shifted_sentences
            c == CeilDiv(self.explicit_seq_len, n)
        IN /\ emitted < c => self.current_idx = emitted * n
           /\ emitted = c => /\ self.current_idx = n
                             /\ batch.x[1] = self.x_sequences[1]
           /\ self.current_idx # 0

\* the third batch of a table of more than two blocks is the wrapped one
C3_Witness ==
    /\ Slurped
    /\ resets = 0
    /\ self.explicit_seq_len > 2 * self.num_shifted_sentences
    /\ emitted = CeilDiv(self.explicit_seq_len, self.num_shifted_sentences)
    /\ self.current_idx = self.num_shifted_sentences

\* every line of the file has between min_seq_len and max_seq_len ids
AllLinesInRange ==
    \A i \in 1..Len(self.x_sequences) :
        /\ Len(self.x_sequences[i]) >= self.min_seq_len
        /\ Len(self.x_sequences[i]) <= self.max_seq_len

\* an in-memory generator over the sequences of the streamed generator's
\* file, as a Sequence Table, with the same parameters
InMemoryTwin ==
    NewObject(Args(pad_sequences(self.x_sequences, self.max_seq_len, "post", "post", PAD_ID),
                   self.max_seq_len, self.min_seq_len, self.num_shifted_sentences,
                   self.skip_step, Falsy, FALSE))

\* the k-th batch of generate_slurped() on obj, k >= 1
RECURSIVE SlurpedBatch(_, _)
SlurpedBatch(obj, k) ==
    LET r == SlurpedStep(obj)
    IN IF k <= 1 THEN r.batch
       ELSE SlurpedBatch([obj EXCEPT !.current_idx = r.current_idx], k - 1)

C5_SizingFormulas ==
    Constructed =>
        LET w == self.max_seq_len \div self.skip_step
            sizes == [num_sliding_windows |-> w,
                      epoch_size |-> self.explicit_seq_len * w,
                      batch_size |-> self.num_shifted_sentences * w,
                      steps_per_epoch |-> (self.explicit_seq_len * w)
                                              \div (self.num_shifted_sentences * w)]
        IN /\ BatchInfo(self) = sizes
           /\ summary # NoSummary => summary = sizes

\* sizes printed for a skip step that does not divide max_seq_len, and still
\* the same after a batch
C5_Witness ==
    /\ Constructed
    /\ summary # NoSummary
    /\ emitted >= 1
    /\ self.max_seq_len % self.skip_step # 0
    /\ self.num_shifted_sentences >= 2

LastBlock ==
    IF self.no_slurp
    THEN [j \in 1..Len(fd.x_local_sequences) |->
            [c \in 1..self.max_seq_len |->
                IF c <= Len(fd.x_local_sequences[j])
                THEN fd.x_local_sequences[j][c] ELSE PAD_ID]]
    ELSE [j \in 1..self.num_shifted_sentences |->
            self.x_sequences[self.current_idx - self.num_shifted_sentences + j]]

RECURSIVE YieldsWithin(_, _)
YieldsWithin(f, fuel) ==
    /\ fuel > 0
    /\ LET r == ReadStep(self, f)
       IN \/ r.outcome = "yield"
          \/ r.outcome = "continue" /\ YieldsWithin(r.f, fuel - 1)

\* a file of parsable lines (none of a single id), one of them long enough
ServableFile ==
    /\ \A i \in 1..Len(self.x_sequences) : Len(self.x_sequences[i]) # 1
    /\ \E i \in 1..Len(self.x_sequences) : Len(self.x_sequences[i]) >= self.min_seq_len

\* C8: over a file with a line of min_seq_len ids or more, every request
\* for the next streamed batch yields one, also after the last line was
\* read: the reader goes back to the start of the file, so a block fills
\* within num_shifted_sentences passes over the file.
C8_EveryRequestYields ==
    (Streamed /\ pc = "reading" /\ ServableFile) =>
        YieldsWithin(fd, (self.num_shifted_sentences + 1) * (Len(self.x_sequences) + 1))

\* C9: steps_per_epoch = explicit_seq_len // num_shifted_sentences, whatever
\* the number of sliding windows.
C9_StepsIgnoreWindows ==
    Constructed =>
        /\ get_steps_per_epoch(self) = self.explicit_seq_len \div self.num_shifted_sentences
        /\ summary # NoSummary =>
            summary.steps_per_epoch = self.explicit_seq_len \div self.num_shifted_sentences

\* several windows, and sentences left over by the division
C9_Witness ==
    /\ Constructed
    /\ summary # NoSummary
    /\ summary.num_sliding_windows >= 2
    /\ summary.steps_per_epoch >= 1
    /\ self.explicit_seq_len % self.num_shifted_sentences # 0

\* C10: with min_seq_len > max_seq_len the preparer fails with a
\* configuration error: it returns no Sequence Table.
C10_MinAboveMaxRejected ==
    (prepared # NotPrepared /\ prep_args.min_seq_len > prep_args.max_seq_len)
    => prepared.status # "returned"

-----------------------------------------------------------------------------
\* the string last read holds a token that is no integer
MalformedRead == \E c \in 1..Len(fd.text) : fd.text[c] = NotANumber

\* the row the line last read makes if it is appended to the block
RowOfRead == MarkEnd(genfromtxt(fd.text).data, self.max_seq_len)

\* C11: in disk-streamed mode a line that cannot be parsed as a vector of
\* integers is discarded like a too-short line: reading it raises no fatal
\* error and adds no row to the block being accumulated.
C11_MalformedLineDiscarded ==
    (Streamed /\ fd # NoFd /\ MalformedRead) =>
        /\ pc # "TypeError"
        /\ \A j \in 1..Len(fd.x_local_sequences) : fd.x_local_sequences[j] # RowOfRead

-----------------------------------------------------------------------------
\* C12 as stated: in the in-memory strategy the cursor satisfies
\* 0 <= current_idx < explicit_seq_len in every reachable state.
C12_CursorBelowLength ==
    Slurped => (0 <= self.current_idx /\ self.current_idx < self.explicit_seq_len)

\* C12, amended: in the in-memory strategy, in every reachable state,
\* current_idx is 0 (at construction and after reset) or a positive multiple
\* of num_shifted_sentences (after a batch).  It is below explicit_seq_len
\* whenever num_shifted_sentences < explicit_seq_len; otherwise it is exactly
\* num_shifted_sentences after every batch, which is not below
\* explicit_seq_len.
C12_CursorRange ==
    Slurped =>
        LET n == self.num_shifted_sentences
            L == self.explicit_seq_len
        IN /\ 0 <= self.current_idx
           /\ self.current_idx % n = 0
           /\ (n < L => self.current_idx < L)
           /\ (n >= L => self.current_idx \in {0, n})
           /\ (self.current_idx = 0 => (emitted = 0 \/ resets > 0))

\* a batch has left the cursor at or past the end of a table that holds
\* no more sequences than one block
C12_Witness ==
    /\ Slurped
    /\ AtYield
    /\ emitted >= 2
    /\ self.num_shifted_sentences >= self.explicit_seq_len
    /\ self.current_idx >= self.explicit_seq_len

-----------------------------------------------------------------------------
\* C13: in the in-memory strategy, with explicit_seq_len = q*n + r and
\* 0 <= r < n, each of the q complete blocks [k*n, (k+1)*n), k = 0..q-1, is
\* emitted in increasing k before the cursor wraps: counted from a fresh
\* generator, batch number k + 1 <= q is the one built from block k.
C13_CompleteBlocksEmitted ==
    (Slurped /\ resets = 0 /\ AtYield
        /\ emitted <= self.explicit_seq_len \div self.num_shifted_sentences) =>
        LET n == self.num_shifted_sentences
            k == emitted - 1
        IN batch = MakeBatch(PySlice(self.x_sequences, k * n, (k + 1) * n),
                             self.max_seq_len, self.skip_step)

-----------------------------------------------------------------------------
\* the lines of the file that pass the length test, in file order
RECURSIVE ValidLines(_, _)
ValidLines(file, i) ==
    IF i > Len(file) THEN <<>>
    ELSE (IF Len(file[i]) >= self.min_seq_len THEN <<file[i]>> ELSE <<>>)
         \o ValidLines(file, i + 1)

\* the block of batch number e when the valid lines are taken n at a time,
\* in file order, starting again at the first one after the last
CyclicBlock(valid, e, n) ==
    [j \in 1..n |-> MarkEnd(valid[(((e - 1) * n + j - 1) % Len(valid)) + 1],
                            self.max_seq_len)]

\* C14: in disk-streamed mode every batch is built from exactly
\* num_shifted_sentences lines of parsed length >= min_seq_len, taken in file
\* order, cyclically; lines shorter than min_seq_len are skipped and appear
\* in no batch.
C14_BlockOfValidLinesInFileOrder ==
    (Streamed /\ AtYield) =>
        LET valid == ValidLines(self.x_sequences, 1)
        IN /\ Len(valid) > 0
           /\ fd.x_local_sequences = CyclicBlock(valid, emitted, self.num_shifted_sentences)
           /\ batch = DiskBatch(CyclicBlock(valid, emitted, self.num_shifted_sentences), self)

-----------------------------------------------------------------------------
\* the batch built from the block of sequences [0 : num_shifted_sentences]
FirstBlockBatch ==
    MakeBatch(PySlice(self.x_sequences, 0, self.num_shifted_sentences),
              self.max_seq_len, self.skip_step)

\* C15: every reset() call sets current_idx to 0 and changes no other field
\* of the generator (nor the batch already yielded); and whenever the cursor
\* is 0 between two batches, as reset() leaves it, the next batch emitted by
\* the in-memory strategy is the one built from the block of sequences
\* [0 : num_shifted_sentences].
C15_ResetRestartsAtFirstBlock ==
    [][/\ (resets' # resets) =>
            /\ self' = [self EXCEPT !.current_idx = 0]
            /\ self'.current_idx = 0
            /\ UNCHANGED <<args, pc, fd, batch, emitted, summary>>
       /\ (Slurped /\ self.current_idx = 0 /\ emitted' # emitted) =>
            batch' = FirstBlockBatch
      ]_vars

\* reset() was called after the second batch of a table of four sequences
\* taken one at a time, and the third batch is the first one again
C15_Witness ==
    /\ Slurped
    /\ AtYield
    /\ resets = 1
    /\ emitted = 3
    /\ self.explicit_seq_len = 4
    /\ self.num_shifted_sentences = 1
    /\ self.current_idx = 1
    /\ batch = FirstBlockBatch

-----------------------------------------------------------------------------
\* C16: no batch emission, sizing getter call (print_batch_info calls all
\* four) or reset() changes the Sequence Table or the configuration: in every
\* reachable state the generator's fields are those __init__ assigned from
\* the constructor's arguments, current_idx excepted, and the table holds the
\* sequences it held at construction.
C16_OnlyCursorChanges ==
    Constructed =>
        /\ [self EXCEPT !.current_idx = 0] = NewObject(args)
        /\ self.x_sequences = args.x_sequences
        /\ self.explicit_seq_len = ExplicitSeqLen(args)
        /\ (self.no_slurp => self.current_idx = 0)

\* batches were emitted, the sizes were printed and reset() was called, and
\* the cursor is away from 0
C16_Witness ==
    /\ Slurped
    /\ AtYield
    /\ emitted >= 3
    /\ resets = 1
    /\ summary # NoSummary
    /\ self.current_idx > self.num_shifted_sentences

-----------------------------------------------------------------------------
\* the row the claim gives a line of at least min_seq_len ids
ExpectedRow(pieces, a) ==
    IF Len(pieces) > a.max_seq_len
    THEN [c \in 1..a.max_seq_len |->
            IF c = a.max_seq_len /\ a.add_eos THEN EosId ELSE pieces[c]]
    ELSE LET fill == [c \in 1..(a.max_seq_len - Len(pieces)) |-> PAD_ID]
         IN IF a.padding_direction = "post" THEN pieces \o fill ELSE fill \o pieces

\* the rows the claim gives the corpus: one per line of at least min_seq_len
\* ids, in input order
RECURSIVE ExpectedTable(_, _, _)
ExpectedTable(lines, i, a) ==
    IF i > Len(lines) THEN <<>>
    ELSE (IF Len(lines[i]) < a.min_seq_len THEN <<>> ELSE <<ExpectedRow(lines[i], a)>>)
         \o ExpectedTable(lines, i + 1, a)

\* C17: the Sequence Preparer returns a table with no row for a line whose
\* encoded length is below min_seq_len and exactly one row, in input order
\* and of exactly max_seq_len ids, for every other line: the first
\* max_seq_len ids (the last replaced by 3 under add_eos) of a longer line,
\* else the ids padded with 1 on the side padding_direction names.
C17_PreparerOutput ==
    prepared # NotPrepared =>
        /\ prepared.status = "returned"
        /\ prepared.x_sequences = ExpectedTable(corpus, 1, prep_args)

\* what holds of the code: the rows are those whenever a table is returned
PreparerRowsWhenReturned ==
    (prepared # NotPrepared /\ prepared.status = "returned") =>
        prepared.x_sequences = ExpectedTable(corpus, 1, prep_args)

-----------------------------------------------------------------------------
\* the row the claim gives a parsed line that enters the block
ExpectedDiskRow(line, max_seq_len, pad) ==
    IF Len(line) > max_seq_len
    THEN SubSeq(line, 1, max_seq_len - 1) \o <<EndMarker>>
    ELSE line \o [c \in 1..(max_seq_len - Len(line)) |-> pad]

\* the line last read passed the length test and was appended to the block
LastReadEntered ==
    /\ Streamed
    /\ fd # NoFd
    /\ pc \in {"reading", "suspended"}
    /\ fd.cnt > 0
    /\ Len(genfromtxt(fd.text).data) >= self.min_seq_len

\* the rows of the block once padded (lines 132-135)
PaddedBlock ==
    pad_sequences(fd.x_local_sequences, self.max_seq_len, "post", "post",
                  self.pad_idx_or_symbol)

\* what holds of the code: every line that is appended to the block is, once
\* the block is padded, the row the claim gives it, and the rows of the block
\* are the first num_shifted_sentences rows of x in the batch
DiskRowsAsDescribed ==
    /\ LastReadEntered =>
          PaddedBlock[fd.cnt] =
              ExpectedDiskRow(genfromtxt(fd.text).data, self.max_seq_len, PAD_ID)
    /\ (Streamed /\ AtYield) =>
          \A j \in 1..self.num_shifted_sentences : batch.x[j] = PaddedBlock[j]

\* C18: in disk-streamed mode a line of parsed length > max_seq_len enters
\* the block as its first max_seq_len - 1 ids followed by the end marker 3,
\* and a line of length between min_seq_len and max_seq_len enters unchanged,
\* post-padded with the pad id to max_seq_len: every appended line makes
\* that row, and no line of at least min_seq_len ids ends the generator
\* instead of entering the block.
C18_LineEntersAsRow ==
    /\ DiskRowsAsDescribed
    /\ (Streamed /\ pc = "TypeError") => Len(fd.text) < self.min_seq_len

-----------------------------------------------------------------------------
\* the number of batches between two wraps
Period == CeilDiv(self.explicit_seq_len, self.num_shifted_sentences) - 1

\* C19: the in-memory batch stream is deterministic and periodic: with
\* explicit_seq_len > num_shifted_sentences and no reset() call, batch number
\* i (counted from 0) is the batch of block i mod P, P being
\* ceil(explicit_seq_len / num_shifted_sentences) - 1, and leaves the cursor
\* after that block; so the cursor wraps after every P batches and batch
\* i + P equals batch i.
C19_PeriodicStream ==
    (Slurped /\ resets = 0 /\ AtYield
        /\ self.explicit_seq_len > self.num_shifted_sentences) =>
        LET n == self.num_shifted_sentences
            k == (emitted - 1) % Period
        IN /\ Period >= 1
           /\ batch = MakeBatch(PySlice(self.x_sequences, k * n, (k + 1) * n),
                                self.max_seq_len, self.skip_step)
           /\ self.current_idx = (k + 1) * n

\* the batch that follows a cycle of at least two batches is the first batch
\* again
C19_Witness ==
    /\ Slurped
    /\ resets = 0
    /\ AtYield
    /\ self.explicit_seq_len > self.num_shifted_sentences
    /\ Period >= 2
    /\ emitted = Period + 1
    /\ batch = FirstBlockBatch
    /\ self.current_idx = self.num_shifted_sentences

=============================================================================
